---- MODULE Spec2Model ----
(***************************************************************************)
(* Model of the operational scripts of core-cloudflare-management-api:     *)
(*   scripts/test-cloudflare-token.py  (token tester / self-healer)        *)
(*   scripts/manage-secrets.py         (secrets synchronizer)              *)
(*   scripts/extract-pr-comments.py    (PR comment extractor)              *)
(* Strings of the secrets file are sequences of one-character strings.     *)
(***************************************************************************)
EXTENDS Integers, Sequences, FiniteSets, TLC

\* ------------------------------------------------------------------------
\* Bounds of the model
\* ------------------------------------------------------------------------
\* longest result list a probe response carries
MaxResultLen == 1
\* print_test calls with the skipped outcome made on one session (SpecSkip)
MaxSkips == 1
\* longest line of a one-line secrets file (SpecLoad)
MaxLineLen == 4
\* most lines of a secrets file put together from PoolLines (SpecLoad)
MaxLines == 3
\* longest value of the secrets files of one long value (SpecLoad)
MaxValueLen == 24
\* most layers of quotes around a value of the secrets files of quoted
\* values (SpecLoad)
MaxLayers == 2
\* highest number of a pull request, and most pull requests `gh pr list`
\* prints (SpecExtract)
MaxPrs == 2
\* most review comments `gh api` prints (SpecExtract)
MaxComments == 2
\* longest token of a session run on its own (SpecBanner)
MaxTokenLen == 40
\* most names after --keys (SpecSync)
MaxKeys == 2
\* most names after --env (SpecSync)
MaxEnvs == 2

\* ------------------------------------------------------------------------
\* Python values
\* ------------------------------------------------------------------------
\* dict.get() of a key the mapping does not hold
None == "None"

\* mutant of Truthy: only None counts as missing, an empty string passes
Truthy_NotNone(v) == v # None

\* Python truthiness of an optional string
Truthy(v) == v # None /\ v # ""

\* Python `a or b`
Or(a, b) == IF Truthy(a) THEN a ELSE b

\* ------------------------------------------------------------------------
\* test-cloudflare-token.py: inputs
\* ------------------------------------------------------------------------
EnvKeys ==
  {"CLOUDFLARE_ACCOUNT_ID", "WORKER_URL", "BASE_URL", "CLIENT_AUTH_TOKEN",
   "CLOUDFLARE_ACCOUNT_TOKEN", "CLOUDFLARE_USER_TOKEN"}

\* what .dev.vars gives for a key: no line, a line with an empty value, a value
EnvValues == {None, "", "v"}

NoVars == [k \in EnvKeys |-> None]

\* the .dev.vars file of the token tester: missing, or its parsed key=value lines
EnvFiles == {[exists |-> FALSE, vars |-> NoVars]}
            \cup {[exists |-> TRUE, vars |-> f] : f \in [EnvKeys -> EnvValues]}

\* the file once load_env_vars has read and closed it
Closed == [exists |-> TRUE, vars |-> NoVars]

\* the status code make_request and trigger_self_heal compare with
HttpOk == 200

StatusCodes == {HttpOk, 403}

\* What one HTTP exchange can give: an exception of requests.request, a body
\* that response.json() rejects, or a JSON envelope (success flag, result
\* payload, error list), any field of which may be missing.
Responses ==
  {[kind |-> k, status |-> 0, success |-> None, result_len |-> 0, errors |-> FALSE] :
      k \in {"Timeout", "RequestException"}}
  \cup {[kind |-> "JSONDecodeError", status |-> s, success |-> None, result_len |-> 0,
         errors |-> FALSE] : s \in StatusCodes}
  \cup [kind : {"json"}, status : StatusCodes, success : {"True", "False", None},
        result_len : 0..MaxResultLen, errors : BOOLEAN]

\* no response: the probes take whatever the backend answers
NoResponse ==
  [kind |-> None, status |-> 0, success |-> None, result_len |-> 0, errors |-> FALSE]

\* ------------------------------------------------------------------------
\* CloudflareTokenTester
\* ------------------------------------------------------------------------
\* mutant of CaughtByMakeRequest: the RequestException clause is missing
CaughtByMakeRequest_NoTransport == {"Timeout", "JSONDecodeError"}

\* the exception classes the except clauses of make_request name
CaughtByMakeRequest == {"Timeout", "RequestException", "JSONDecodeError"}

\* make_request: what it returns for one exchange, or that it raised
make_request(resp) ==
  IF resp.kind = "json"
    THEN IF resp.status = HttpOk /\ resp.success = "True"
           THEN [raised |-> FALSE, success |-> TRUE, message |-> "Success"]
           ELSE [raised |-> FALSE, success |-> FALSE,
                 message |-> IF resp.errors THEN "Error code: message"
                                            ELSE "Error N/A: Unknown error"]
    ELSE IF resp.kind \in CaughtByMakeRequest
      THEN [raised |-> FALSE, success |-> FALSE,
            message |-> CASE resp.kind = "Timeout" -> "Request timeout"
                          [] resp.kind = "RequestException" -> "Request failed"
                          [] OTHER -> "Invalid JSON response"]
      ELSE [raised |-> TRUE, success |-> FALSE, message |-> resp.kind]

\* mutant of print_test: a skipped outcome is appended like any other
print_test_AppendsSkipped(results, name, success, message) ==
  Append(results, [name |-> name, success |-> success])

\* the three outcomes print_test takes: True, False, None (skipped)
Outcomes == {"True", "False", None}

\* print_test: the result sequence after reporting one probe
print_test(results, name, success, message) ==
  IF success # None
    THEN Append(results, [name |-> name, success |-> success])
    ELSE results

\* the probes of run_all_tests, in the order it calls them
ProbeNames ==
  <<"Token Verification", "List Accounts", "List Workers Scripts",
    "List D1 Databases", "List KV Namespaces", "List AI Models", "List API Tokens">>

NumProbes == Len(ProbeNames)

\* test_token_verification: the result sequence it leaves
token_verification_results(results, resp) ==
  LET r == make_request(resp) IN
    IF r.success
      THEN print_test(results, ProbeNames[1], "True", "Token ID, Status, Expires")
      ELSE print_test(results, ProbeNames[1], "False", r.message)

\* test_account_access: the result sequence it leaves
account_access_results(results, resp) ==
  LET r == make_request(resp) IN
    IF r.success
      THEN IF resp.result_len > 0
             THEN print_test(results, ProbeNames[2], "True", "Found account(s)")
             ELSE print_test(results, ProbeNames[2], "False", "No accounts accessible")
      ELSE print_test(results, ProbeNames[2], "False", r.message)

\* mutant of list_probe_results: an empty list is a failure, as in
\* test_account_access
list_probe_results_EmptyFails(results, name, resp) ==
  LET r == make_request(resp) IN
    IF r.success
      THEN IF resp.result_len > 0
             THEN print_test(results, name, "True", "Found")
             ELSE print_test(results, name, "False", "None accessible")
      ELSE print_test(results, name, "False", r.message)

\* test_workers_list, test_d1_databases, test_kv_namespaces, test_ai_models and
\* test_api_tokens_list share one body: the result sequence it leaves
list_probe_results(results, name, resp) ==
  LET r == make_request(resp) IN
    IF r.success
      THEN IF resp.result_len > 0
             THEN print_test(results, name, "True", "Found")
             ELSE print_test(results, name, "True", "None found (but access granted)")
      ELSE print_test(results, name, "False", r.message)

\* print_summary: <<passed, failed>>
print_summary(results) ==
  LET total == Len(results)
      passed == Cardinality({i \in DOMAIN results : results[i].success = "True"})
  IN <<passed, total - passed>>

\* ------------------------------------------------------------------------
\* manage-secrets.py: strings
\* ------------------------------------------------------------------------
\* what str.strip() without an argument removes
Whitespace == {" "}

RECURSIVE lstrip(_, _)
\* str.lstrip(chars)
lstrip(s, chars) ==
  IF s # <<>> /\ Head(s) \in chars THEN lstrip(Tail(s), chars) ELSE s

RECURSIVE rstrip(_, _)
\* str.rstrip(chars)
rstrip(s, chars) ==
  IF s # <<>> /\ s[Len(s)] \in chars THEN rstrip(SubSeq(s, 1, Len(s) - 1), chars) ELSE s

\* str.strip(chars)
strip(s, chars) == rstrip(lstrip(s, chars), chars)

\* `c in s`
Contains(s, c) == \E i \in DOMAIN s : s[i] = c

\* s.split(c, 1) of a string that holds c: <<before, after>> its first c
split_once(s, c) ==
  LET i == CHOOSE k \in DOMAIN s : s[k] = c /\ \A j \in 1..(k - 1) : s[j] # c
  IN <<SubSeq(s, 1, i - 1), SubSeq(s, i + 1, Len(s))>>

\* ------------------------------------------------------------------------
\* SecretsManager: the mapping self.secrets, a dict in insertion order
\* ------------------------------------------------------------------------
\* `key in self.secrets`
HasKey(secrets, key) == \E i \in DOMAIN secrets : secrets[i].key = key

\* `self.secrets[key]`
ValueOf(secrets, key) ==
  secrets[CHOOSE i \in DOMAIN secrets : secrets[i].key = key].value

\* `self.secrets[key] = value`: a known key keeps its place, a new one is last
dict_set(secrets, key, value) ==
  IF HasKey(secrets, key)
    THEN [i \in DOMAIN secrets |->
            IF secrets[i].key = key THEN [key |-> key, value |-> value] ELSE secrets[i]]
    ELSE Append(secrets, [key |-> key, value |-> value])

\* list(self.secrets.keys())
KeysOf(secrets) == [i \in DOMAIN secrets |-> secrets[i].key]

\* mutant of parse_line: an entry is stored without the `if key and value` test
parse_line_KeepsEmpty(secrets, raw) ==
  LET line == strip(raw, Whitespace) IN
    IF line = <<>> \/ Head(line) = "#"
      THEN secrets
      ELSE IF Contains(line, "=")
        THEN LET kv == split_once(line, "=")
                 key == strip(kv[1], Whitespace)
                 value == strip(strip(strip(kv[2], Whitespace), {"\""}), {"'"})
             IN dict_set(secrets, key, value)
        ELSE secrets

\* the body of the loop of load_secrets: self.secrets after one line of the file
parse_line(secrets, raw) ==
  LET line == strip(raw, Whitespace) IN
    IF line = <<>> \/ Head(line) = "#"
      THEN secrets
      ELSE IF Contains(line, "=")
        THEN LET kv == split_once(line, "=")
                 key == strip(kv[1], Whitespace)
                 value == strip(strip(strip(kv[2], Whitespace), {"\""}), {"'"})
             IN IF key # <<>> /\ value # <<>>
                  THEN dict_set(secrets, key, value)
                  ELSE secrets
        ELSE secrets

RECURSIVE load_lines(_, _)
\* the loop of load_secrets over the lines of the file
load_lines(secrets, lines) ==
  IF lines = <<>>
    THEN secrets
    ELSE load_lines(parse_line(secrets, Head(lines)), Tail(lines))

\* the characters of the model, in code point order
Chars ==
  <<" ", "\"", "#", "'", "*", ".", "1", "2", "3", "=", "A", "E", "I", "K", "P", "Y",
    "_", "a", "b", "c">>

\* ord(c)
Ord(c) == CHOOSE i \in DOMAIN Chars : Chars[i] = c

RECURSIVE StrLess(_, _)
\* s < t for Python strings
StrLess(s, t) ==
  IF t = <<>> THEN FALSE
  ELSE IF s = <<>> THEN TRUE
  ELSE IF Head(s) = Head(t) THEN StrLess(Tail(s), Tail(t))
  ELSE Ord(Head(s)) < Ord(Head(t))

\* sorted(keys), for a set of keys
RECURSIVE Sorted(_)
Sorted(keys) ==
  IF keys = {}
    THEN <<>>
    ELSE LET least == CHOOSE k \in keys : \A o \in keys \ {k} : StrLess(k, o)
         IN <<least>> \o Sorted(keys \ {least})

\* the lengths list_secrets masks by
MaskThreshold == 20
MaskShown == 10

\* mutant of masked: a value of up to 20 characters is printed as it is
masked_ShortInClear(value) ==
  IF Len(value) > MaskThreshold
    THEN SubSeq(value, 1, MaskShown) \o <<".", ".", ".">>
           \o SubSeq(value, Len(value) - MaskShown + 1, Len(value))
    ELSE value

\* list_secrets: what it prints for one value
masked(value) ==
  IF Len(value) > MaskThreshold
    THEN SubSeq(value, 1, MaskShown) \o <<".", ".", ".">>
           \o SubSeq(value, Len(value) - MaskShown + 1, Len(value))
    ELSE [i \in 1..Len(value) |-> "*"]

\* mutant of list_output: the keys are gone through as the mapping holds them
list_output_Unsorted(secrets) ==
  [i \in DOMAIN secrets |-> [key |-> secrets[i].key, shown |-> masked(secrets[i].value)]]

\* list_secrets: the lines it prints, as <<key, masked value>>
list_output(secrets) ==
  LET keys == Sorted({secrets[i].key : i \in DOMAIN secrets})
  IN [i \in DOMAIN keys |-> [key |-> keys[i], shown |-> masked(ValueOf(secrets, keys[i]))]]

\* mutant of env_flag: the flag is built for every environment
env_flag_Always(environment) == <<"--env=", environment>>

\* upload_secret: the f-string env_flag, as its pieces; "" is <<>>
env_flag(environment) ==
  IF environment # None /\ environment # "" /\ environment # "default"
    THEN <<"--env=", environment>> ELSE <<>>

\* upload_secret: the wrangler invocation, its argument list and its standard
\* input; an argument is the sequence of its pieces
upload_command(key, value, environment) ==
  [cmd |-> << <<"npx">>, <<"wrangler">>, <<"secret">>, <<"put">>, key >>
             \o (IF env_flag(environment) # <<>> THEN <<env_flag(environment)>> ELSE <<>>),
   input |-> value]

\* what subprocess.run can give: a completed process or an exception
UploadResults ==
  [kind : {"completed"}, returncode : {0, 1}, marker : BOOLEAN]
  \cup {[kind |-> k, returncode |-> 0, marker |-> FALSE] :
          k \in {"TimeoutExpired", "Exception"}}

\* mutant of upload_secret: the exit status alone decides, the marker is not
\* looked for
upload_secret_ExitStatusOnly(result) ==
  result.kind = "completed" /\ result.returncode = 0

\* upload_secret: its return value
upload_secret(result) ==
  result.kind = "completed" /\ result.returncode = 0 /\ result.marker

\* ------------------------------------------------------------------------
\* manage-secrets.py: state
\* ------------------------------------------------------------------------
VARIABLES
  spc,                   \* where main() of manage-secrets.py is
  dev_vars,              \* the .dev.vars file: whether it exists, and its lines
  args,                  \* the parsed command line
  secrets,               \* self.secrets
  listed,                \* the lines list_secrets printed
  uploads,               \* the wrangler invocations made, in order
  last_run,              \* what subprocess.run gave upload_secret the last time
  environments,
  env_i,                 \* position of sync_all_environments in environments
  key_i,                 \* position of sync_to_environment in keys_to_sync
  success_count,
  fail_count,
  total_success,
  total_fail,
  secrets_exit           \* argument of sys.exit, once spc = "exit"

sync_vars ==
  <<environments, env_i, key_i, success_count, fail_count, total_success, total_fail>>

secrets_vars ==
  <<spc, dev_vars, args, secrets, listed, uploads, last_run, sync_vars, secrets_exit>>

\* upload_secret has not been called
NoRun == [kind |-> None, returncode |-> 0, marker |-> FALSE]

\* manage-secrets.py before main() has done anything, but for its inputs
SecretsIdle ==
  /\ spc = "start"
  /\ secrets = <<>>
  /\ listed = <<>>
  /\ uploads = <<>>
  /\ last_run = NoRun
  /\ environments = <<>>
  /\ env_i = 0
  /\ key_i = 0
  /\ success_count = 0
  /\ fail_count = 0
  /\ total_success = 0
  /\ total_fail = 0
  /\ secrets_exit = -1

\* manage-secrets.py is not run
SecretsOff ==
  /\ SecretsIdle
  /\ dev_vars = [exists |-> FALSE, lines |-> <<>>]
  /\ args = [list |-> FALSE, all |-> FALSE, env |-> <<>>, keys |-> <<>>]

\* ------------------------------------------------------------------------
\* extract-pr-comments.py: state
\* ------------------------------------------------------------------------
VARIABLES
  xpc,                   \* where main() of extract-pr-comments.py is
  pr_info,               \* what get_open_pr returned
  comments,              \* what extract_pr_comments returned
  report_file,           \* the file pr_<number>_comments.txt, once opened for writing
  stage_log,             \* the stages gone through, each with whether it succeeded
  extractor_exit         \* the exit status, once xpc = "exit"

extractor_vars == <<xpc, pr_info, comments, report_file, stage_log, extractor_exit>>

\* get_open_pr has returned no PR
NoPr == [number |-> 0, title |-> None, repo |-> <<>>]

\* no file of the name has been opened for writing
NoFile == [name |-> <<>>, content |-> <<>>, closed |-> FALSE]

\* extract-pr-comments.py before main() has done anything
ExtractorIdle ==
  /\ xpc = "start"
  /\ pr_info = NoPr
  /\ comments = <<>>
  /\ report_file = NoFile
  /\ stage_log = <<>>
  /\ extractor_exit = -1

\* ------------------------------------------------------------------------
\* CloudflareTokenTester.run_all_tests: the banner of a session on its own
\* ------------------------------------------------------------------------
VARIABLES
  banner_token,          \* self.token, as its characters
  banner                 \* the token preview run_all_tests printed

banner_vars == <<banner_token, banner>>

\* no session is run on its own
BannerOff ==
  /\ banner_token = <<>>
  /\ banner = <<>>

\* the extractor and the banner of a session on its own
other_vars == <<extractor_vars, banner_vars>>

\* neither extract-pr-comments.py nor a session on its own is run
OthersOff == ExtractorIdle /\ BannerOff

\* ------------------------------------------------------------------------
\* test-cloudflare-token.py: state
\* ------------------------------------------------------------------------
VARIABLES
  pc,                    \* where main() is
  env_file,              \* the .dev.vars file, until load_env_vars has read it
  account_id,            \* main()'s locals read from env_vars
  worker_url,
  client_auth_token,
  account_token,
  user_token,
  tester,                \* the CloudflareTokenTester inside run_all_tests
  needs_healing,
  initial_total_passed,
  initial_total_failed,
  retest_total_passed,
  retest_total_failed,
  exit_status,           \* argument of sys.exit, once pc = "exit"
  report,                \* the outcome line main() printed last
  probe_resp,            \* the response a probe applied on its own is given
  trace,                 \* batteries started and heal calls made, in order
  tally,                 \* results recorded per phase, counted as they are appended
  gets,                  \* probe GET requests issued so far
  posts,                 \* heal POST requests issued so far
  print_calls,           \* print_test calls made on the current session
  skips                  \* of which with the skipped outcome

main_locals == <<account_id, worker_url, client_auth_token, account_token, user_token>>

totals ==
  <<needs_healing, initial_total_passed, initial_total_failed, retest_total_passed,
    retest_total_failed>>

tester_vars ==
  <<pc, env_file, main_locals, tester, totals, exit_status, report, probe_resp, trace,
    tally, gets, posts, print_calls, skips>>

vars == <<tester_vars, secrets_vars, other_vars>>


\* no session: main() is not inside run_all_tests
NoTester == [token_type |-> None, results |-> <<>>, next |-> 0]

\* CloudflareTokenTester.__init__
NewTester(token_type) == [token_type |-> token_type, results |-> <<>>, next |-> 1]

InBattery == tester.next > 0

NoTally == [INITIAL |-> [passed |-> 0, failed |-> 0], RETEST |-> [passed |-> 0, failed |-> 0]]

\* the state before main() runs, but for the file and the session
TesterIdle ==
  /\ pc = "start"
  /\ account_id = None
  /\ worker_url = None
  /\ client_auth_token = None
  /\ account_token = None
  /\ user_token = None
  /\ needs_healing = FALSE
  /\ initial_total_passed = 0
  /\ initial_total_failed = 0
  /\ retest_total_passed = 0
  /\ retest_total_failed = 0
  /\ exit_status = -1
  /\ report = ""
  /\ trace = <<>>
  /\ tally = NoTally
  /\ gets = 0
  /\ posts = 0
  /\ print_calls = 0
  /\ skips = 0

TesterInit ==
  /\ TesterIdle
  /\ env_file \in EnvFiles
  /\ tester = NoTester
  /\ probe_resp = NoResponse

\* test-cloudflare-token.py is not run
TesterOff ==
  /\ TesterIdle
  /\ env_file = [exists |-> FALSE, vars |-> NoVars]
  /\ tester = NoTester
  /\ probe_resp = NoResponse

\* sys.exit(status) after printing msg
Exit(status, msg) ==
  /\ pc' = "exit"
  /\ exit_status' = status
  /\ report' = msg

\* load_env_vars: the mapping it returns, when the file exists
load_env_vars(file) == file.vars

\* load_env_vars and the configuration checks of main()
main_load ==
  /\ pc = "start"
  /\ IF ~env_file.exists
       THEN /\ Exit(1, "Error: .dev.vars file not found")
            /\ UNCHANGED <<env_file, main_locals>>
       ELSE LET env_vars == load_env_vars(env_file) IN
         /\ env_file' = Closed
         /\ account_id' = env_vars["CLOUDFLARE_ACCOUNT_ID"]
         /\ worker_url' = Or(env_vars["WORKER_URL"], env_vars["BASE_URL"])
         /\ client_auth_token' = env_vars["CLIENT_AUTH_TOKEN"]
         /\ IF ~Truthy(env_vars["CLOUDFLARE_ACCOUNT_ID"])
              THEN /\ Exit(1, "Error: CLOUDFLARE_ACCOUNT_ID not found")
                   /\ UNCHANGED <<account_token, user_token>>
              ELSE /\ account_token' = env_vars["CLOUDFLARE_ACCOUNT_TOKEN"]
                   /\ user_token' = env_vars["CLOUDFLARE_USER_TOKEN"]
                   /\ IF /\ ~Truthy(env_vars["CLOUDFLARE_ACCOUNT_TOKEN"])
                         /\ ~Truthy(env_vars["CLOUDFLARE_USER_TOKEN"])
                        THEN Exit(1, "Error: Neither token found")
                        ELSE /\ pc' = "initial_account"
                             /\ UNCHANGED <<exit_status, report>>
  /\ needs_healing' = FALSE
  /\ initial_total_passed' = 0
  /\ initial_total_failed' = 0
  /\ UNCHANGED <<tester, retest_total_passed, retest_total_failed, probe_resp, trace,
                 tally, gets, posts, print_calls, skips>>
  /\ UNCHANGED <<secrets_vars, other_vars>>

\* main() reaches the block of one credential: with the token present it
\* builds a session and enters run_all_tests, without it it skips the block
BeginBattery(loc, phase, token, token_type, next_loc) ==
  /\ pc = loc
  /\ ~InBattery
  /\ IF Truthy(token)
       THEN /\ tester' = NewTester(token_type)
            /\ trace' = Append(trace, <<phase, token_type>>)
            /\ pc' = pc
       ELSE /\ pc' = next_loc
            /\ UNCHANGED <<tester, trace>>
  /\ print_calls' = 0
  /\ skips' = 0
  /\ UNCHANGED <<env_file, main_locals, totals, exit_status, report, probe_resp, tally,
                 gets, posts>>
  /\ UNCHANGED <<secrets_vars, other_vars>>

main_initial_account ==
  BeginBattery("initial_account", "INITIAL", account_token, "account", "initial_user")

main_initial_user ==
  BeginBattery("initial_user", "INITIAL", user_token, "user", "initial_summary")

main_retest_account ==
  BeginBattery("retest_account", "RETEST", account_token, "account", "retest_user")

main_retest_user ==
  BeginBattery("retest_user", "RETEST", user_token, "user", "final")

\* the phase main() is in while a battery runs
Phase == IF pc \in {"initial_account", "initial_user"} THEN "INITIAL" ELSE "RETEST"

\* tally after a print_test call that took results to new_results
Tallied(results, new_results) ==
  IF Len(new_results) = Len(results)
    THEN tally
    ELSE IF new_results[Len(new_results)].success = "True"
      THEN [tally EXCEPT ![Phase].passed = @ + 1]
      ELSE [tally EXCEPT ![Phase].failed = @ + 1]

\* one probe of run_all_tests, the n-th: it issues its GET and, unless
\* make_request lets an exception through, leaves the results new_results
Probe(n, resp, new_results) ==
  /\ InBattery
  /\ tester.next = n
  /\ gets' = gets + 1
  /\ IF make_request(resp).raised
       THEN /\ Exit(1, "Traceback")
            /\ tester' = NoTester
            /\ UNCHANGED <<tally, print_calls>>
       ELSE /\ tester' = [tester EXCEPT !.results = new_results, !.next = n + 1]
            /\ tally' = Tallied(tester.results, new_results)
            /\ print_calls' = print_calls + 1
            /\ UNCHANGED <<pc, exit_status, report>>
  /\ UNCHANGED <<env_file, main_locals, totals, probe_resp, trace, posts, skips>>
  /\ UNCHANGED <<secrets_vars, other_vars>>

test_token_verification(resp) ==
  Probe(1, resp, token_verification_results(tester.results, resp))

test_account_access(resp) ==
  Probe(2, resp, account_access_results(tester.results, resp))

test_workers_list(resp) ==
  Probe(3, resp, list_probe_results(tester.results, ProbeNames[3], resp))

test_d1_databases(resp) ==
  Probe(4, resp, list_probe_results(tester.results, ProbeNames[4], resp))

test_kv_namespaces(resp) ==
  Probe(5, resp, list_probe_results(tester.results, ProbeNames[5], resp))

test_ai_models(resp) ==
  Probe(6, resp, list_probe_results(tester.results, ProbeNames[6], resp))

test_api_tokens_list(resp) ==
  Probe(7, resp, list_probe_results(tester.results, ProbeNames[7], resp))

\* run_all_tests prints the summary and returns <<passed, failed>> to main(),
\* which adds them to the totals of the phase it is in
run_all_tests_return ==
  /\ InBattery
  /\ tester.next = NumProbes + 1
  /\ LET r == print_summary(tester.results)
         passed == r[1]
         failed == r[2]
     IN IF Phase = "INITIAL"
          THEN /\ initial_total_passed' = initial_total_passed + passed
               /\ initial_total_failed' = initial_total_failed + failed
               /\ needs_healing' = IF failed > 0 THEN TRUE ELSE needs_healing
               /\ UNCHANGED <<retest_total_passed, retest_total_failed>>
          ELSE /\ retest_total_passed' = retest_total_passed + passed
               /\ retest_total_failed' = retest_total_failed + failed
               /\ UNCHANGED <<initial_total_passed, initial_total_failed, needs_healing>>
  /\ pc' = CASE pc = "initial_account" -> "initial_user"
             [] pc = "initial_user" -> "initial_summary"
             [] pc = "retest_account" -> "retest_user"
             [] pc = "retest_user" -> "final"
  /\ tester' = NoTester
  /\ UNCHANGED <<env_file, main_locals, exit_status, report, probe_resp, trace, tally,
                 gets, posts, print_calls, skips>>
  /\ UNCHANGED <<secrets_vars, other_vars>>

\* mutant of main_initial_summary: the heal credential is not checked
main_initial_summary_NoCredCheck ==
  /\ pc = "initial_summary"
  /\ IF needs_healing /\ initial_total_failed > 0
       THEN IF ~Truthy(worker_url)
              THEN Exit(IF initial_total_failed > 0 THEN 1 ELSE 0,
                        "WORKER_URL not found, cannot trigger self-heal")
              ELSE /\ pc' = "heal"
                   /\ UNCHANGED <<exit_status, report>>
       ELSE Exit(0, "All tests passed! No healing needed.")
  /\ UNCHANGED <<env_file, main_locals, tester, totals, probe_resp, trace, tally, gets,
                 posts, print_calls, skips>>
  /\ UNCHANGED <<secrets_vars, other_vars>>

\* mutant of main_initial_summary: the heal configuration is checked before
\* the failure count
main_initial_summary_ConfigFirst ==
  /\ pc = "initial_summary"
  /\ IF ~Truthy(worker_url)
       THEN Exit(1, "WORKER_URL not found, cannot trigger self-heal")
       ELSE IF ~Truthy(client_auth_token)
         THEN Exit(1, "CLIENT_AUTH_TOKEN not found, cannot trigger self-heal")
         ELSE IF needs_healing /\ initial_total_failed > 0
           THEN /\ pc' = "heal"
                /\ UNCHANGED <<exit_status, report>>
           ELSE Exit(0, "All tests passed! No healing needed.")
  /\ UNCHANGED <<env_file, main_locals, tester, totals, probe_resp, trace, tally, gets,
                 posts, print_calls, skips>>
  /\ UNCHANGED <<secrets_vars, other_vars>>

\* main() after the INITIAL batteries: exit, or go on to the heal call
main_initial_summary ==
  /\ pc = "initial_summary"
  /\ IF needs_healing /\ initial_total_failed > 0
       THEN IF ~Truthy(worker_url)
              THEN Exit(IF initial_total_failed > 0 THEN 1 ELSE 0,
                        "WORKER_URL not found, cannot trigger self-heal")
              ELSE IF ~Truthy(client_auth_token)
                THEN Exit(IF initial_total_failed > 0 THEN 1 ELSE 0,
                          "CLIENT_AUTH_TOKEN not found, cannot trigger self-heal")
                ELSE /\ pc' = "heal"
                     /\ UNCHANGED <<exit_status, report>>
       ELSE Exit(0, "All tests passed! No healing needed.")
  /\ UNCHANGED <<env_file, main_locals, tester, totals, probe_resp, trace, tally, gets,
                 posts, print_calls, skips>>
  /\ UNCHANGED <<secrets_vars, other_vars>>

\* what the heal POST can give: an exception, or a JSON envelope
HealResponses ==
  {[kind |-> k, status |-> 0, success |-> None] : k \in {"Timeout", "Exception"}}
  \cup [kind : {"json"}, status : StatusCodes, success : {"True", "False", None}]

\* mutant of trigger_self_heal: the success flag of the envelope is not read
trigger_self_heal_StatusOnly(resp) ==
  IF resp.kind = "json"
    THEN resp.status = HttpOk
    ELSE FALSE

\* trigger_self_heal: its return value
trigger_self_heal(resp) ==
  IF resp.kind = "json"
    THEN resp.status = HttpOk /\ resp.success = "True"
    ELSE FALSE

\* main() calls trigger_self_heal once and enters RETEST or exits
main_heal ==
  /\ pc = "heal"
  /\ \E resp \in HealResponses :
       LET heal_success == trigger_self_heal(resp) IN
         /\ posts' = posts + 1
         /\ trace' = Append(trace, <<"HEAL", resp>>)
         /\ IF heal_success
              THEN /\ pc' = "retest_account"
                   /\ retest_total_passed' = 0
                   /\ retest_total_failed' = 0
                   /\ UNCHANGED <<exit_status, report>>
              ELSE /\ Exit(1, "Self-heal failed. Exiting with initial test results.")
                   /\ UNCHANGED <<retest_total_passed, retest_total_failed>>
  /\ UNCHANGED <<env_file, main_locals, tester, needs_healing, initial_total_passed,
                 initial_total_failed, probe_resp, tally, gets, print_calls, skips>>
  /\ UNCHANGED <<secrets_vars, other_vars>>

\* the outcome line of the final comparison
Classify(initial_passed, retest_passed, retest_failed) ==
  LET improvement == retest_passed - initial_passed IN
    IF improvement > 0
      THEN "Improvement"
      ELSE IF improvement = 0 /\ retest_failed > 0
        THEN "No improvement after healing"
        ELSE "All tests passing!"

\* mutant of main_final: the exit status is taken from the INITIAL failures
main_final_ExitsOnInitial ==
  /\ pc = "final"
  /\ Exit(IF initial_total_failed = 0 THEN 0 ELSE 1,
          Classify(initial_total_passed, retest_total_passed, retest_total_failed))
  /\ UNCHANGED <<env_file, main_locals, tester, totals, probe_resp, trace, tally, gets,
                 posts, print_calls, skips>>
  /\ UNCHANGED <<secrets_vars, other_vars>>

\* main() after the RETEST batteries: compare and exit
main_final ==
  /\ pc = "final"
  /\ Exit(IF retest_total_failed = 0 THEN 0 ELSE 1,
          Classify(initial_total_passed, retest_total_passed, retest_total_failed))
  /\ UNCHANGED <<env_file, main_locals, tester, totals, probe_resp, trace, tally, gets,
                 posts, print_calls, skips>>
  /\ UNCHANGED <<secrets_vars, other_vars>>

Init == TesterInit /\ SecretsOff /\ OthersOff

Next ==
  \/ main_load
  \/ main_initial_account
  \/ main_initial_user
  \/ \E resp \in Responses : test_token_verification(resp)
  \/ \E resp \in Responses : test_account_access(resp)
  \/ \E resp \in Responses : test_workers_list(resp)
  \/ \E resp \in Responses : test_d1_databases(resp)
  \/ \E resp \in Responses : test_kv_namespaces(resp)
  \/ \E resp \in Responses : test_ai_models(resp)
  \/ \E resp \in Responses : test_api_tokens_list(resp)
  \/ run_all_tests_return
  \/ main_initial_summary
  \/ main_heal
  \/ main_retest_account
  \/ main_retest_user
  \/ main_final

\* the token tester, from process start to exit
Spec == Init /\ [][Next]_vars

TypeOK ==
  /\ pc \in {"start", "initial_account", "initial_user", "initial_summary", "heal",
             "retest_account", "retest_user", "final", "exit"}
  /\ exit_status \in {-1, 0, 1}
  /\ tester.next \in 0..(NumProbes + 1)

\* a caller of print_test reports a probe as skipped (success is None)
skip_probe ==
  /\ InBattery
  /\ skips < MaxSkips
  /\ LET new_results == print_test(tester.results, "Skipped Probe", None, "skipped") IN
       /\ tester' = [tester EXCEPT !.results = new_results]
       /\ tally' = Tallied(tester.results, new_results)
  /\ print_calls' = print_calls + 1
  /\ skips' = skips + 1
  /\ UNCHANGED <<pc, env_file, main_locals, totals, exit_status, report, probe_resp,
                 trace, gets, posts>>
  /\ UNCHANGED <<secrets_vars, other_vars>>

NextSkip == Next \/ skip_probe

\* the token tester, with skipped probes reported during its batteries
SpecSkip == Init /\ [][NextSkip]_vars

\* a session that run_all_tests has just been called on, and the one response
\* each of its probes is given
ProbeInit ==
  /\ pc = "initial_account"
  /\ env_file = Closed
  /\ account_id = "v"
  /\ worker_url \in {None, "v"}
  /\ client_auth_token = None
  /\ account_token = "v"
  /\ user_token \in {None, "v"}
  /\ tester = NewTester("account")
  /\ probe_resp \in Responses
  /\ needs_healing = FALSE
  /\ initial_total_passed = 0
  /\ initial_total_failed = 0
  /\ retest_total_passed = 0
  /\ retest_total_failed = 0
  /\ exit_status = -1
  /\ report = ""
  /\ trace = <<<<"INITIAL", "account">>>>
  /\ tally = NoTally
  /\ gets = 0
  /\ posts = 0
  /\ print_calls = 0
  /\ skips = 0
  /\ SecretsOff
  /\ OthersOff

NextProbe ==
  \/ test_token_verification(probe_resp)
  \/ test_account_access(probe_resp)
  \/ test_workers_list(probe_resp)
  \/ test_d1_databases(probe_resp)
  \/ test_kv_namespaces(probe_resp)
  \/ test_ai_models(probe_resp)
  \/ test_api_tokens_list(probe_resp)

\* one battery whose probes are all given the same response
SpecProbe == ProbeInit /\ [][NextProbe]_vars

\* ------------------------------------------------------------------------
\* manage-secrets.py: operations
\* ------------------------------------------------------------------------
\* sys.exit(status) of manage-secrets.py
SecretsExit(status) ==
  /\ spc' = "exit"
  /\ secrets_exit' = status

\* main() calls load_secrets and exits when it returns False
load_secrets ==
  /\ spc = "start"
  /\ IF ~dev_vars.exists
       THEN /\ SecretsExit(1)
            /\ UNCHANGED secrets
       ELSE LET loaded == load_lines(secrets, dev_vars.lines) IN
         /\ secrets' = loaded
         /\ IF loaded = <<>>
              THEN SecretsExit(1)
              ELSE /\ spc' = "loaded"
                   /\ UNCHANGED secrets_exit
  /\ UNCHANGED <<dev_vars, args, listed, uploads, last_run, sync_vars>>
  /\ UNCHANGED <<tester_vars, other_vars>>

\* main() with --list: list_secrets, then exit 0
list_secrets ==
  /\ spc = "loaded"
  /\ args.list
  /\ listed' = list_output(secrets)
  /\ SecretsExit(0)
  /\ UNCHANGED <<dev_vars, args, secrets, uploads, last_run, sync_vars>>
  /\ UNCHANGED <<tester_vars, other_vars>>

\* main() without --list: it settles the environments and calls
\* sync_all_environments, or exits when none is named
main_environments ==
  /\ spc = "loaded"
  /\ ~args.list
  /\ IF args.all \/ args.env # <<>>
       THEN /\ environments' = IF args.all THEN <<"default", "production">> ELSE args.env
            /\ total_success' = 0
            /\ total_fail' = 0
            /\ env_i' = 1
            /\ spc' = "sync_all"
            /\ UNCHANGED secrets_exit
       ELSE /\ SecretsExit(1)
            /\ UNCHANGED <<environments, total_success, total_fail, env_i>>
  /\ UNCHANGED <<dev_vars, args, secrets, listed, uploads, last_run, key_i,
                 success_count, fail_count>>
  /\ UNCHANGED <<tester_vars, other_vars>>

\* mutant of keys_to_sync: every loaded key, whatever --keys names
keys_to_sync_AllLoaded == KeysOf(secrets)

\* sync_to_environment: the keys it goes through
keys_to_sync == IF args.keys # <<>> THEN args.keys ELSE KeysOf(secrets)

\* sync_all_environments calls sync_to_environment for the next environment
sync_to_environment ==
  /\ spc = "sync_all"
  /\ env_i <= Len(environments)
  /\ success_count' = 0
  /\ fail_count' = 0
  /\ key_i' = 1
  /\ spc' = "sync_env"
  /\ UNCHANGED <<dev_vars, args, secrets, listed, uploads, last_run, environments,
                 env_i, total_success, total_fail, secrets_exit>>
  /\ UNCHANGED <<tester_vars, other_vars>>

\* one turn of the loop of sync_to_environment: the key is skipped when the
\* mapping lacks it, uploaded by upload_secret otherwise
sync_key ==
  /\ spc = "sync_env"
  /\ key_i <= Len(keys_to_sync)
  /\ LET key == keys_to_sync[key_i] IN
       IF ~HasKey(secrets, key)
         THEN UNCHANGED <<uploads, last_run, success_count, fail_count>>
         ELSE \E result \in UploadResults :
                /\ uploads' = Append(uploads,
                     [command |-> upload_command(key, ValueOf(secrets, key),
                                                 environments[env_i]),
                      environment |-> environments[env_i]])
                /\ last_run' = result
                /\ IF upload_secret(result)
                     THEN /\ success_count' = success_count + 1
                          /\ UNCHANGED fail_count
                     ELSE /\ fail_count' = fail_count + 1
                          /\ UNCHANGED success_count
  /\ key_i' = key_i + 1
  /\ UNCHANGED <<spc, dev_vars, args, secrets, listed, environments, env_i,
                 total_success, total_fail, secrets_exit>>
  /\ UNCHANGED <<tester_vars, other_vars>>

\* mutant of sync_to_environment_return: an environment with a failed upload
\* ends the loop of sync_all_environments
sync_to_environment_return_StopsOnFailure ==
  /\ spc = "sync_env"
  /\ key_i > Len(keys_to_sync)
  /\ total_success' = total_success + success_count
  /\ total_fail' = total_fail + fail_count
  /\ env_i' = IF fail_count > 0 THEN Len(environments) + 1 ELSE env_i + 1
  /\ spc' = "sync_all"
  /\ UNCHANGED <<dev_vars, args, secrets, listed, uploads, last_run, environments,
                 key_i, success_count, fail_count, secrets_exit>>
  /\ UNCHANGED <<tester_vars, other_vars>>

\* sync_to_environment returns its counts, which sync_all_environments adds up
sync_to_environment_return ==
  /\ spc = "sync_env"
  /\ key_i > Len(keys_to_sync)
  /\ total_success' = total_success + success_count
  /\ total_fail' = total_fail + fail_count
  /\ env_i' = env_i + 1
  /\ spc' = "sync_all"
  /\ UNCHANGED <<dev_vars, args, secrets, listed, uploads, last_run, environments,
                 key_i, success_count, fail_count, secrets_exit>>
  /\ UNCHANGED <<tester_vars, other_vars>>

\* mutant of sync_all_environments_return: main() exits 0 whatever the totals
sync_all_environments_return_IgnoresFailures ==
  /\ spc = "sync_all"
  /\ env_i > Len(environments)
  /\ SecretsExit(0)
  /\ UNCHANGED <<dev_vars, args, secrets, listed, uploads, last_run, sync_vars>>
  /\ UNCHANGED <<tester_vars, other_vars>>

\* sync_all_environments returns total_fail == 0 and main() exits on it
sync_all_environments_return ==
  /\ spc = "sync_all"
  /\ env_i > Len(environments)
  /\ SecretsExit(IF total_fail = 0 THEN 0 ELSE 1)
  /\ UNCHANGED <<dev_vars, args, secrets, listed, uploads, last_run, sync_vars>>
  /\ UNCHANGED <<tester_vars, other_vars>>

SecretsNext ==
  \/ load_secrets
  \/ list_secrets
  \/ main_environments
  \/ sync_to_environment
  \/ sync_key
  \/ sync_to_environment_return
  \/ sync_all_environments_return

\* the characters the one-line secrets files are written in
Alphabet == {"a", " ", "=", "#", "\"", "'"}

\* every string of at most n characters
Strings(n) == UNION {[1..k -> Alphabet] : k \in 0..n}

\* the lines the longer secrets files are put together from:
\* `a=b`, `b=a`, `a=a`, `b=b`, `#a`, `a=` and a blank line
PoolLines ==
  {<<"a", "=", "b">>, <<"b", "=", "a">>, <<"a", "=", "a">>, <<"b", "=", "b">>, <<"#", "a">>,
   <<"a", "=">>, <<>>}

\* the file `API_KEY=abc123`, `# comment`, blank line
ScenarioFile ==
  << <<"A", "P", "I", "_", "K", "E", "Y", "=", "a", "b", "c", "1", "2", "3">>,
     <<"#", " ", "c", "a", "b">>,
     <<>> >>

\* the value of n characters abc123abc123...
PatternValue(n) == [i \in 1..n |-> <<"a", "b", "c", "1", "2", "3">>[((i - 1) % 6) + 1]]

\* the value of n characters c
Run(c, n) == [i \in 1..n |-> c]

\* the long values: abc123... of every length, values of mask characters
\* only, and a value whose middle is the elision list_secrets prints
LongValues ==
  {PatternValue(n) : n \in 1..MaxValueLen}
  \cup {Run("*", n) : n \in {3, MaskThreshold}}
  \cup {Run("a", MaskShown) \o Run(".", 3) \o Run("b", MaskShown)}

\* the one-line files `K=value` of the long values
LongValueFiles == {<< <<"K", "=">> \o value >> : value \in LongValues}

\* the quote characters load_secrets strips
Quotes == {"\"", "'"}

RECURSIVE Wrapped(_, _)
\* the text inside the layers of quotes, the first layer outermost
Wrapped(layers, text) ==
  IF layers = <<>>
    THEN text
    ELSE <<Head(layers)>> \o Wrapped(Tail(layers), text) \o <<Head(layers)>>

\* what the quoted values hold inside their quotes: `b` and `b=a`
QuotedTexts == {<<"b">>, <<"b", "=", "a">>}

\* the line `a = ` and a value in its layers of quotes
QuotedLine(layers, text) == <<"a", " ", "=", " ">> \o Wrapped(layers, text)

\* the one-line files of a value in at most MaxLayers layers of quotes
QuotedValueFiles ==
  {<<QuotedLine(layers, text)>> :
     layers \in UNION {[1..k -> Quotes] : k \in 0..MaxLayers}, text \in QuotedTexts}

SecretsFiles ==
  {<<line>> : line \in Strings(MaxLineLen)}
  \cup UNION {[1..k -> PoolLines] : k \in 0..MaxLines}
  \cup {ScenarioFile}
  \cup LongValueFiles
  \cup QuotedValueFiles

DevVarsFiles ==
  {[exists |-> FALSE, lines |-> <<>>]}
  \cup {[exists |-> TRUE, lines |-> f] : f \in SecretsFiles}

\* the command lines of SpecLoad: --list, --env default, and none of the three
LoadArgs ==
  {[list |-> TRUE, all |-> FALSE, env |-> <<>>, keys |-> <<>>],
   [list |-> FALSE, all |-> FALSE, env |-> <<"default">>, keys |-> <<>>],
   [list |-> FALSE, all |-> FALSE, env |-> <<>>, keys |-> <<>>]}

LoadInit ==
  /\ TesterOff
  /\ OthersOff
  /\ SecretsIdle
  /\ dev_vars \in DevVarsFiles
  /\ args \in LoadArgs

\* manage-secrets.py on every small secrets file
SpecLoad == LoadInit /\ [][SecretsNext]_vars

\* every sequence over S of m to n elements
SeqsOf(S, m, n) == UNION {[1..k -> S] : k \in m..n}

\* ------------------------------------------------------------------------
\* CloudflareTokenTester.run_all_tests: the banner
\* ------------------------------------------------------------------------
\* the lengths of the two slices of the token the banner shows
PreviewHead == 20
PreviewTail == 10

\* s[:n]
first_chars(s, n) == SubSeq(s, 1, IF Len(s) < n THEN Len(s) ELSE n)

\* s[-n:]
last_chars(s, n) == SubSeq(s, IF Len(s) < n THEN 1 ELSE Len(s) - n + 1, Len(s))

\* f"{self.token[:20]}...{self.token[-10:]}"
token_preview(token) ==
  first_chars(token, PreviewHead) \o <<".", ".", ".">> \o last_chars(token, PreviewTail)

\* the tokens of SpecBanner: abc123abc123... and aaa... of every length
BannerTokens ==
  {PatternValue(n) : n \in 1..MaxTokenLen} \cup {Run("a", n) : n \in 1..MaxTokenLen}

\* run_all_tests prints the banner of the session
run_all_tests_banner ==
  /\ banner_token # <<>>
  /\ banner = <<>>
  /\ banner' = token_preview(banner_token)
  /\ UNCHANGED banner_token
  /\ UNCHANGED <<tester_vars, secrets_vars, extractor_vars>>

BannerInit ==
  /\ TesterOff
  /\ SecretsOff
  /\ ExtractorIdle
  /\ banner_token \in BannerTokens
  /\ banner = <<>>

\* a session run on its own, for every token
SpecBanner == BannerInit /\ [][run_all_tests_banner]_vars

\* ------------------------------------------------------------------------
\* extract-pr-comments.py: operations
\* ------------------------------------------------------------------------
\* what subprocess.run(check=True) gives run_gh_command: the standard output
\* of a command that exited 0, or CalledProcessError
Completed(stdout) == [kind |-> "completed", stdout |-> stdout]
CalledProcessError == [kind |-> "CalledProcessError", stdout |-> <<>>]

\* run_gh_command: None, or the standard output of the command
run_gh_command(outcome) ==
  [none |-> outcome.kind = "CalledProcessError", out |-> outcome.stdout]

\* `gh --version`: it fails, prints nothing, or prints its version
GhVersionOutcomes == {CalledProcessError, Completed(<<>>), Completed(<<"gh version 2">>)}

\* the remote URLs `git config --get remote.origin.url` prints, as their
\* pieces: HTTPS and SSH URLs of GitHub with and without `.git`, one of
\* another host, one without a repository name, one of too many parts and
\* one of a scheme that is neither
RemoteUrls ==
  {<<"https://", "github.com", "/", "owner", "/", "repo", ".git">>,
   <<"https://", "github.com", "/", "owner", "/", "repo">>,
   <<"git@", "github.com", ":", "owner", "/", "repo", ".git">>,
   <<"https://", "gitlab.com", "/", "owner", "/", "repo", ".git">>,
   <<"https://", "github.com", "/", "owner">>,
   <<"https://", "github.com", "/", "owner", "/", "repo", "/", "tree">>,
   <<"http://", "github.com", "/", "owner", "/", "repo">>}

RemoteOutcomes == {CalledProcessError, Completed(<<>>)} \cup {Completed(u) : u \in RemoteUrls}

\* the positions of remote_url at which "github.com" and then sep stand
MarkerAt(remote_url, sep) ==
  {i \in 1..(Len(remote_url) - 1) : remote_url[i] = "github.com" /\ remote_url[i + 1] = sep}

\* remote_url.split("github.com" + sep)[1]; the IndexError of a URL without
\* the marker is raised
repo_part(remote_url, sep) ==
  IF MarkerAt(remote_url, sep) = {}
    THEN [raised |-> TRUE, part |-> <<>>]
    ELSE LET first == CHOOSE i \in MarkerAt(remote_url, sep) :
                        \A j \in MarkerAt(remote_url, sep) : i <= j
             after == SubSeq(remote_url, first + 2, Len(remote_url))
             later == MarkerAt(after, sep)
             upto == IF later = {} THEN Len(after)
                     ELSE (CHOOSE i \in later : \A j \in later : i <= j) - 1
         IN [raised |-> FALSE, part |-> SubSeq(after, 1, upto)]

\* get_open_pr, lines 50 to 75: the `owner/repo` of the remote URL, with
\* found false where the function returns None
repo_of(outcome) ==
  LET remote_url == run_gh_command(outcome) IN
    IF remote_url.none \/ remote_url.out = <<>>
      THEN [found |-> FALSE, repo |-> <<>>]
    ELSE IF ~\E i \in DOMAIN remote_url.out : remote_url.out[i] = "github.com"
      THEN [found |-> FALSE, repo |-> <<>>]
    ELSE LET split == IF remote_url.out[1] = "https://"
                        THEN repo_part(remote_url.out, "/")
                        ELSE repo_part(remote_url.out, ":")
             part == IF split.part # <<>> /\ split.part[Len(split.part)] = ".git"
                       THEN SubSeq(split.part, 1, Len(split.part) - 1)
                       ELSE split.part
             slashes == Cardinality({i \in DOMAIN part : part[i] = "/"})
         IN IF split.raised \/ slashes # 1
              THEN [found |-> FALSE, repo |-> <<>>]
              ELSE [found |-> TRUE, repo |-> part]

\* an element of the list `gh pr list --json` prints; complete is false for
\* one that lacks the title
PrItems == [number : 1..MaxPrs, title : {"Fix sync", "Add probe"}, complete : BOOLEAN]

\* `gh pr list`: it fails, prints nothing, prints what json.loads rejects,
\* or prints a list of at most MaxPrs elements
PrListOutcomes ==
  {[kind |-> "CalledProcessError", stdout |-> [text |-> "", prs |-> <<>>]]}
  \cup {Completed([text |-> t, prs |-> <<>>]) : t \in {"", "not JSON"}}
  \cup {Completed([text |-> "JSON", prs |-> prs]) : prs \in SeqsOf(PrItems, 0, MaxPrs)}

\* get_open_pr, lines 77 to 102: the first pull request of the list, or
\* NoPr where the function returns None
first_pr(repo, outcome) ==
  LET prs_output == run_gh_command(outcome) IN
    IF prs_output.none \/ prs_output.out.text \in {"", "not JSON"}
      THEN NoPr
    ELSE LET prs == prs_output.out.prs IN
      IF prs = <<>> \/ ~prs[1].complete
        THEN NoPr
        ELSE [number |-> prs[1].number, title |-> prs[1].title, repo |-> repo]

\* the lines the --jq filter prints, one for a comment
CommentLines == {"a.py:1 - fix", "b.py:2 - why", "c.py:3 - ok"}

\* `gh api ... --paginate`: it fails, or prints a line for each comment
CommentsOutcomes ==
  {CalledProcessError} \cup {Completed(lines) : lines \in SeqsOf(CommentLines, 0, MaxComments)}

\* what opening and writing the report file can come to
SaveOutcomes == {"saved", "open fails", "write fails"}

\* the name save_comments_to_file gives the file
filename(pr) == <<"pr_", pr.number, "_comments.txt">>

\* save_comments_to_file: what it writes, the header and the lines after it
report_content(pr, lines) ==
  [header |-> pr,
   body |-> IF lines # <<>> THEN lines ELSE <<"No comments found.">>]

\* main() has gone through a stage
Logged(stage, ok) == stage_log' = Append(stage_log, <<stage, ok>>)

\* sys.exit(status) of extract-pr-comments.py, or the return of main()
ExtractorExit(status) ==
  /\ xpc' = "exit"
  /\ extractor_exit' = status

\* main() checks that gh runs
main_check_cli ==
  /\ xpc = "start"
  /\ \E outcome \in GhVersionOutcomes :
       LET version == run_gh_command(outcome) IN
         IF version.none \/ version.out = <<>>
           THEN Logged("cli", FALSE) /\ ExtractorExit(1)
           ELSE Logged("cli", TRUE) /\ xpc' = "get_open_pr" /\ UNCHANGED extractor_exit
  /\ UNCHANGED <<pr_info, comments, report_file>>
  /\ UNCHANGED <<tester_vars, secrets_vars, banner_vars>>

\* main() calls get_open_pr and exits when it returns None
get_open_pr ==
  /\ xpc = "get_open_pr"
  /\ \E remote \in RemoteOutcomes : \E listing \in PrListOutcomes :
       LET found == repo_of(remote)
           pr == first_pr(found.repo, listing)
       IN IF ~found.found
            THEN Logged("repository", FALSE) /\ ExtractorExit(1) /\ UNCHANGED pr_info
          ELSE IF pr = NoPr
            THEN /\ stage_log' = stage_log \o << <<"repository", TRUE>>, <<"pr", FALSE>> >>
                 /\ ExtractorExit(1)
                 /\ UNCHANGED pr_info
          ELSE /\ stage_log' = stage_log \o << <<"repository", TRUE>>, <<"pr", TRUE>> >>
               /\ pr_info' = pr
               /\ xpc' = "extract_pr_comments"
               /\ UNCHANGED extractor_exit
  /\ UNCHANGED <<comments, report_file>>
  /\ UNCHANGED <<tester_vars, secrets_vars, banner_vars>>

\* mutant of extract_pr_comments: after a failed retrieval main() goes on to
\* save, with no comment
extract_pr_comments_FailureIgnored ==
  /\ xpc = "extract_pr_comments"
  /\ \E outcome \in CommentsOutcomes :
       LET comments_output == run_gh_command(outcome) IN
         /\ Logged("comments", ~comments_output.none)
         /\ comments' = comments_output.out
         /\ xpc' = "save_comments_to_file"
         /\ UNCHANGED extractor_exit
  /\ UNCHANGED <<pr_info, report_file>>
  /\ UNCHANGED <<tester_vars, secrets_vars, banner_vars>>

\* main() calls extract_pr_comments and exits when it returns None
extract_pr_comments ==
  /\ xpc = "extract_pr_comments"
  /\ \E outcome \in CommentsOutcomes :
       LET comments_output == run_gh_command(outcome) IN
         IF comments_output.none
           THEN Logged("comments", FALSE) /\ ExtractorExit(1) /\ UNCHANGED comments
           ELSE /\ Logged("comments", TRUE)
                /\ comments' = comments_output.out
                /\ xpc' = "save_comments_to_file"
                /\ UNCHANGED extractor_exit
  /\ UNCHANGED <<pr_info, report_file>>
  /\ UNCHANGED <<tester_vars, secrets_vars, banner_vars>>

\* main() calls save_comments_to_file, exits 1 when it returns None and
\* returns otherwise
save_comments_to_file ==
  /\ xpc = "save_comments_to_file"
  /\ \E outcome \in SaveOutcomes :
       /\ report_file' =
            IF outcome = "open fails"
              THEN report_file
              ELSE [name |-> filename(pr_info),
                    content |-> IF outcome = "saved"
                                  THEN <<report_content(pr_info, comments)>>
                                  ELSE <<>>,
                    closed |-> outcome = "saved"]
       /\ Logged("write", outcome = "saved")
       /\ ExtractorExit(IF outcome = "saved" THEN 0 ELSE 1)
  /\ UNCHANGED <<pr_info, comments>>
  /\ UNCHANGED <<tester_vars, secrets_vars, banner_vars>>

ExtractorNext ==
  \/ main_check_cli
  \/ get_open_pr
  \/ extract_pr_comments
  \/ save_comments_to_file

ExtractInit ==
  /\ TesterOff
  /\ SecretsOff
  /\ BannerOff
  /\ ExtractorIdle

\* extract-pr-comments.py
SpecExtract == ExtractInit /\ [][ExtractorNext]_vars

\* the secrets files of SpecSync: `a=a`, and `b=a`, `a=b`
SyncFiles ==
  { << <<"a", "=", "a">> >>,
    << <<"b", "=", "a">>, <<"a", "=", "b">> >> }

\* the key names --keys is given: a and b are in the files, c is in none
KeyNames == {<<"a">>, <<"b">>, <<"c">>}

\* the environment names --env is given, the empty name among them
EnvNames == {"default", "production", ""}

\* the command lines of SpecSync: --keys absent or of at most MaxKeys names,
\* --env absent or of at most MaxEnvs names, with and without --all, and --list
SyncArgs ==
  [list : {FALSE}, all : BOOLEAN, env : SeqsOf(EnvNames, 0, MaxEnvs),
   keys : SeqsOf(KeyNames, 0, MaxKeys)]
  \cup [list : {TRUE}, all : {FALSE}, env : {<<>>}, keys : SeqsOf(KeyNames, 0, 1)]

SyncInit ==
  /\ TesterOff
  /\ OthersOff
  /\ SecretsIdle
  /\ dev_vars \in {[exists |-> TRUE, lines |-> f] : f \in SyncFiles}
  /\ args \in SyncArgs

\* manage-secrets.py on every small command line
SpecSync == SyncInit /\ [][SecretsNext]_vars

\* ------------------------------------------------------------------------
\* Properties of the secrets synchronizer
\* ------------------------------------------------------------------------
\* a line of spaces only, or empty
Blank(line) == \A i \in DOMAIN line : line[i] = " "

\* a line whose first character that is no space is '#'
Comment(line) ==
  \E i \in DOMAIN line : line[i] = "#" /\ \A j \in 1..(i - 1) : line[j] = " "

\* a line with nothing but spaces before its first '=', or nothing but spaces
\* or one pair of quotes after it
EmptySide(line) ==
  \E i \in DOMAIN line :
    /\ line[i] = "="
    /\ \A j \in 1..(i - 1) : line[j] # "="
    /\ \/ \A j \in 1..(i - 1) : line[j] = " "
       \/ \A j \in (i + 1)..Len(line) : line[j] = " "
       \/ SubSeq(line, i + 1, Len(line)) \in {<<"\"", "\"">>, <<"'", "'">>}

KEY_API_KEY == <<"A", "P", "I", "_", "K", "E", "Y">>

\* C10: after load_secrets no entry of the mapping has an empty key or an
\* empty value; blank lines, comment lines and lines whose key or value trims
\* to nothing give no entry; `API_KEY=abc123`, `# comment` and a blank line
\* load as the one entry API_KEY -> abc123; and whatever is listed or
\* uploaded is an entry of the mapping.
C10_NoEmptyEntries ==
  /\ \A i \in DOMAIN secrets : secrets[i].key # <<>> /\ secrets[i].value # <<>>
  /\ spc # "start" =>
       /\ Len(secrets) <= Cardinality({i \in DOMAIN dev_vars.lines :
                             /\ ~Blank(dev_vars.lines[i])
                             /\ ~Comment(dev_vars.lines[i])
                             /\ ~EmptySide(dev_vars.lines[i])})
       /\ dev_vars.lines = ScenarioFile =>
            secrets = <<[key |-> KEY_API_KEY, value |-> <<"a", "b", "c", "1", "2", "3">>]>>
  /\ \A i \in DOMAIN listed : HasKey(secrets, listed[i].key)
  /\ Len(listed) <= Len(secrets)
  /\ \A i \in DOMAIN uploads :
       \E j \in DOMAIN secrets :
         secrets[j] = [key |-> uploads[i].command.cmd[5], value |-> uploads[i].command.input]

C10_Witness ==
  /\ spc = "exit"
  /\ dev_vars.lines = ScenarioFile
  /\ listed = <<[key |-> KEY_API_KEY, shown |-> <<"*", "*", "*", "*", "*", "*">>]>>

\* the loaded value of a key
Loaded(key) == secrets[CHOOSE i \in DOMAIN secrets : secrets[i].key = key].value

\* the string s with c as its p-th character
Replaced(s, p, c) == [i \in DOMAIN s |-> IF i = p THEN c ELSE s[i]]

\* a character of the value does not reach the printed text: whatever stands
\* at its place, the text is the same
SomeCharacterWithheld(value, shown) ==
  \E p \in DOMAIN value : \A c \in {"a", "b", "*", "."} : masked(Replaced(value, p, c)) = shown

\* C14: in listing mode every loaded secret is listed, a value of more than 20
\* characters as its first 10 characters, `...` and its last 10 characters,
\* a value of at most 20 characters as that many `*`; at least one character
\* of every value is withheld from what is printed; and a run in listing
\* mode makes no upload.
C14_ListMasked ==
  /\ \A i \in DOMAIN listed :
       LET value == Loaded(listed[i].key)
           shown == listed[i].shown
           n == Len(value)
       IN /\ n > 20 => shown = SubSeq(value, 1, 10) \o <<".", ".", ".">>
                                  \o SubSeq(value, n - 9, n)
          /\ n <= 20 => shown = [k \in 1..n |-> "*"]
          /\ SomeCharacterWithheld(value, shown)
  /\ (args.list /\ spc = "exit" /\ secrets # <<>>) =>
       {listed[i].key : i \in DOMAIN listed} = {secrets[i].key : i \in DOMAIN secrets}
  /\ args.list => uploads = <<>>

\* a value of 21 characters was listed with its 11th character withheld
C14_Witness ==
  /\ args.list
  /\ spc = "exit"
  /\ Len(listed) = 1
  /\ Len(Loaded(listed[1].key)) = 21
  /\ listed[1].shown = <<"a", "b", "c", "1", "2", "3", "a", "b", "c", "1", ".", ".", ".",
                         "3", "a", "b", "c", "1", "2", "3", "a", "b", "c">>

\* the lines of a file that are `k=v` with k and v one of a, b
EntryLines(lines) ==
  SelectSeq(lines, LAMBDA l : Len(l) = 3 /\ l[2] = "=" /\ {l[1], l[3]} \subseteq {"a", "b"})

\* every line of the file is such a line, or one that gives no entry
PooledFile == \A i \in DOMAIN dev_vars.lines : dev_vars.lines[i] \in PoolLines

RECURSIVE FirstSeen(_)
\* the keys of entry lines, each at the place of its first occurrence
FirstSeen(es) ==
  IF es = <<>>
    THEN <<>>
    ELSE LET before == FirstSeen(SubSeq(es, 1, Len(es) - 1))
             key == <<es[Len(es)][1]>>
         IN IF \E i \in DOMAIN before : before[i] = key THEN before ELSE Append(before, key)

\* the value of the last entry line of the key
LastValue(es, key) ==
  LET last == CHOOSE i \in DOMAIN es :
                /\ <<es[i][1]>> = key
                /\ \A j \in DOMAIN es : <<es[j][1]>> = key => j <= i
  IN <<es[last][3]>>

\* the keys of the loaded mapping, as it holds them
MappingKeys == [i \in DOMAIN secrets |-> secrets[i].key]

\* the keys of the lines --list printed
ListedKeys == [i \in DOMAIN listed |-> listed[i].key]

\* the listing has run
ListDone == args.list /\ spc = "exit" /\ secrets # <<>>

\* the mapping holds the keys of the entry lines in first-seen order, each
\* with the value of its last entry line
LastWinsFirstPlace ==
  (spc # "start" /\ dev_vars.exists /\ PooledFile) =>
    LET es == EntryLines(dev_vars.lines) IN
      /\ MappingKeys = FirstSeen(es)
      /\ \A i \in DOMAIN secrets : secrets[i].value = LastValue(es, secrets[i].key)

\* C15 (as claimed): the value loaded for a key is that of its last
\* occurrence, the key keeps the place of its first occurrence, and the
\* listing prints the keys in that first-seen order.
C15_ListedInInsertionOrder ==
  /\ LastWinsFirstPlace
  /\ ListDone => ListedKeys = MappingKeys

\* C15 (amended): the value loaded for a key is that of its last occurrence
\* and the key keeps the place of its first occurrence in the mapping, which
\* is the order a sync without --keys uploads in; the listing prints the
\* keys in ascending order, whatever their order in the file.
C15_LastWinsSortedListing ==
  /\ LastWinsFirstPlace
  /\ (ListDone /\ PooledFile) =>
       ListedKeys = SelectSeq(<< <<"a">>, <<"b">> >>,
                              LAMBDA k : \E i \in DOMAIN secrets : secrets[i].key = k)
  /\ (spc = "exit" /\ secrets_exit = 0 /\ ~args.list) =>
       [i \in DOMAIN uploads |-> uploads[i].command.cmd[5]] = MappingKeys

\* `b=a`, `a=b`, `b=b`: b is loaded first with its last value and a second,
\* and the listing prints a before b
C15_Witness ==
  /\ ListDone
  /\ secrets = << [key |-> <<"b">>, value |-> <<"b">>], [key |-> <<"a">>, value |-> <<"b">>] >>
  /\ ListedKeys = << <<"a">>, <<"b">> >>

\* C16 (as claimed): a line is split on its first `=` only, and the value
\* loses the whitespace around it and exactly one layer of quotes: of
\* `a = <layers of quotes around text>` the entry a is loaded with the text
\* in all its layers but the outermost, later `=` included.
C16_OneLayerRemoved ==
  \A layers \in UNION {[1..k -> Quotes] : k \in 0..MaxLayers} : \A text \in QuotedTexts :
    (spc # "start" /\ dev_vars.exists /\ dev_vars.lines = <<QuotedLine(layers, text)>>) =>
      secrets = <<[key |-> <<"a">>,
                   value |-> IF layers = <<>> THEN text ELSE Wrapped(Tail(layers), text)]>>

\* the CLI exited with status 0 and its captured output holds the marker
CliSucceeded(run) == run.kind = "completed" /\ run.returncode = 0 /\ run.marker

\* the step is an upload attempt: one more invocation is in the log
Attempt == Len(uploads') = Len(uploads) + 1

\* C11: every upload attempt is counted once: as a success if and only if the
\* CLI exited with status 0 and the success marker is in its captured output;
\* a non-zero exit, a missing marker, a timeout or any other exception adds
\* one to the failure count and nothing to the success count.
C11_UploadCounted ==
  [][Attempt =>
       /\ last_run' \in UploadResults
       /\ IF CliSucceeded(last_run')
            THEN success_count' = success_count + 1 /\ fail_count' = fail_count
            ELSE fail_count' = fail_count + 1 /\ success_count' = success_count]_vars

\* a timed-out attempt and an attempt without the marker were counted as the
\* two failures of an environment, next to one success in the totals
C11_Witness ==
  /\ spc = "sync_env"
  /\ last_run.kind = "TimeoutExpired"
  /\ fail_count = 2
  /\ success_count = 0
  /\ total_success = 1

\* the keys a sync goes through: those named by --keys, or every loaded key
Selected == IF args.keys # <<>> THEN args.keys ELSE [i \in DOMAIN secrets |-> secrets[i].key]

\* the selected keys the mapping holds, in order and with multiplicity
Present == SelectSeq(Selected, LAMBDA k : \E i \in DOMAIN secrets : secrets[i].key = k)

RECURSIVE PairsFor(_)
\* the (key, environment) pairs of a sync to the environments envs, in order
PairsFor(envs) ==
  IF envs = <<>>
    THEN <<>>
    ELSE [i \in DOMAIN Present |-> <<Present[i], Head(envs)>>] \o PairsFor(Tail(envs))

\* the (key, environment) pairs the CLI was invoked for, in order
PairsDone == [i \in DOMAIN uploads |-> <<uploads[i].command.cmd[5], uploads[i].environment>>]

NoDuplicates(seq) == \A i, j \in DOMAIN seq : seq[i] = seq[j] => i = j

\* the sync has run to its end
SyncDone == spc = "exit" /\ environments # <<>>

\* C12: the invocations made so far are the first pairs of the sync, taken
\* environment by environment in the order given and key by key; when the
\* sync ends, every pair has been attempted, whatever the attempts gave; and
\* when no environment and no key is named twice, each pair has been attempted
\* exactly once.
C12_EveryPairOnce ==
  /\ Len(PairsDone) <= Len(PairsFor(environments))
  /\ PairsDone = SubSeq(PairsFor(environments), 1, Len(PairsDone))
  /\ SyncDone =>
       /\ PairsDone = PairsFor(environments)
       /\ (NoDuplicates(environments) /\ NoDuplicates(Selected)) =>
            \A e \in DOMAIN environments : \A k \in DOMAIN Present :
              Cardinality({i \in DOMAIN PairsDone :
                             PairsDone[i] = <<Present[k], environments[e]>>}) = 1

\* two keys and two environments: all four attempts were made though every
\* one of them failed, the last by a timeout
C12_Witness ==
  /\ SyncDone
  /\ Len(environments) = 2 /\ NoDuplicates(environments)
  /\ Len(Present) = 2 /\ NoDuplicates(Present)
  /\ Len(uploads) = 4
  /\ total_fail = 4
  /\ last_run.kind = "TimeoutExpired"

\* the argument list has an environment flag
HasFlag(cmd) == \E j \in DOMAIN cmd : cmd[j][1] = "--env="

\* the invocation is `npx wrangler secret put K`, with `--env=E` after it if
\* flagged, and V on its standard input; V is no argument, but where it is K
ArgumentsFor(upload, flagged) ==
  LET K == upload.command.cmd[5]
      V == upload.command.input
      E == upload.environment
  IN /\ \E i \in DOMAIN secrets : secrets[i] = [key |-> K, value |-> V]
     /\ upload.command.cmd =
          << <<"npx">>, <<"wrangler">>, <<"secret">>, <<"put">>, K >>
            \o (IF flagged THEN << <<"--env=", E>> >> ELSE <<>>)
     /\ HasFlag(upload.command.cmd) <=> flagged
     /\ \A j \in DOMAIN upload.command.cmd : upload.command.cmd[j] = V => (j = 5 /\ V = K)

\* C17 (as claimed): every invocation has the key as an argument, the
\* environment flag if and only if the environment is not "default", and the
\* value on its standard input and not among its arguments.
C17_FlagIffNotDefault ==
  \A i \in DOMAIN uploads : ArgumentsFor(uploads[i], uploads[i].environment # "default")

\* C17 (amended): every invocation has the key as an argument, the
\* environment flag if and only if the environment name is neither empty nor
\* "default", and the value on its standard input only: the argument list
\* is made of the key and the environment alone.
C17_FlagIffNamedNotDefault ==
  \A i \in DOMAIN uploads : ArgumentsFor(uploads[i], uploads[i].environment \notin {"", "default"})

\* the same key went to the environments "" and "production": the first
\* invocation has no flag, the second has
C17_Witness ==
  /\ Len(uploads) = 2
  /\ [i \in 1..2 |-> uploads[i].environment] = <<"", "production">>
  /\ [i \in 1..2 |-> HasFlag(uploads[i].command.cmd)] = <<FALSE, TRUE>>
  /\ uploads[2].command.input = <<"b">>

\* the selected keys up to the n-th that the mapping holds
PresentUpTo(n) ==
  {i \in 1..n : i <= Len(Selected) /\ \E j \in DOMAIN secrets : secrets[j].key = Selected[i]}

\* C19: a selected key the mapping does not hold is never the key of an
\* invocation and adds to no count: while an environment is synced its
\* success and failure counts add up to the number of keys gone through
\* that the mapping holds, counted as often as they are named, and to the
\* number of all such keys when its loop ends; a sync none of whose keys is
\* in the mapping ends with no invocation, totals of 0 and status 0.
C19_AbsentKeysSkipped ==
  /\ \A i \in DOMAIN uploads :
       \E j \in DOMAIN secrets : secrets[j].key = uploads[i].command.cmd[5]
  /\ spc = "sync_env" =>
       /\ success_count + fail_count = Cardinality(PresentUpTo(key_i - 1))
       /\ key_i > Len(Selected) => success_count + fail_count = Len(Present)
  /\ (SyncDone /\ Present = <<>>) =>
       /\ uploads = <<>>
       /\ total_success = 0
       /\ total_fail = 0
       /\ secrets_exit = 0

\* two keys are named and the mapping holds one of them: the loop of an
\* environment ended with one upload made and counted
C19_Witness ==
  /\ spc = "sync_env"
  /\ Len(Selected) = 2
  /\ Len(Present) = 1
  /\ key_i = 3
  /\ success_count + fail_count = 1
  /\ Len(uploads) = 1

\* the counts of the environment being synced, once its loop is under way
InProgress == IF spc = "sync_env" THEN success_count + fail_count ELSE 0

\* C13: sync_all_environments adds the counts of each environment to its
\* totals as sync_to_environment returns them, and changes the totals at no
\* other time, so that the totals account for every attempt made; once the
\* sync has run, the exit status is 0 if the total failure count is 0 and 1
\* otherwise.
C13_TotalsAndExit ==
  /\ [][IF spc = "sync_env" /\ spc' = "sync_all"
          THEN /\ total_success' = total_success + success_count
               /\ total_fail' = total_fail + fail_count
          ELSE spc \in {"sync_all", "sync_env"} =>
                 /\ total_success' = total_success
                 /\ total_fail' = total_fail]_vars
  /\ [](spc \in {"sync_all", "sync_env", "exit"} =>
          total_success + total_fail + InProgress = Len(uploads))
  /\ [](SyncDone => secrets_exit = (IF total_fail = 0 THEN 0 ELSE 1))

\* a sync of two environments ended with one upload failed among four, and
\* status 1
C13_Witness ==
  /\ SyncDone
  /\ Len(environments) = 2
  /\ total_success = 3
  /\ total_fail = 1
  /\ secrets_exit = 1

\* ------------------------------------------------------------------------
\* Properties of the comment extractor
\* ------------------------------------------------------------------------
\* the stages of the extractor, in order
StageOrder == <<"cli", "repository", "pr", "comments", "write">>

\* the stage was gone through and succeeded
Succeeded(stage) == \E i \in DOMAIN stage_log : stage_log[i] = <<stage, TRUE>>

\* the stage was gone through and failed
Failed(stage) == \E i \in DOMAIN stage_log : stage_log[i] = <<stage, FALSE>>

\* C18: the stages run in order and a failed stage is the last one; a report
\* file exists only if the CLI check, the repository resolution, the PR
\* discovery and the comment retrieval have all succeeded, so that a failure
\* of any of them leaves no file; the process ends with a non-zero status
\* if a stage failed, the write included, and with status 0 only with the
\* file written in full: the header of the PR and its comments.
C18_ReportOnlyAfterSuccess ==
  /\ Len(stage_log) <= Len(StageOrder)
  /\ \A i \in DOMAIN stage_log :
       /\ stage_log[i][1] = StageOrder[i]
       /\ stage_log[i][2] = FALSE => (i = Len(stage_log) /\ xpc = "exit")
  /\ report_file # NoFile =>
       \A n \in 1..4 : Succeeded(StageOrder[n])
  /\ (\E n \in 1..4 : Failed(StageOrder[n])) => report_file = NoFile
  /\ xpc = "exit" =>
       /\ (\E n \in 1..5 : Failed(StageOrder[n])) <=> extractor_exit # 0
       /\ extractor_exit = 0 =>
            /\ \A n \in 1..5 : Succeeded(StageOrder[n])
            /\ report_file.closed
            /\ report_file.name = <<"pr_", pr_info.number, "_comments.txt">>
            /\ report_file.content[1].header = pr_info
            /\ comments # <<>> => report_file.content[1].body = comments
  /\ xpc # "exit" => extractor_exit = -1 /\ report_file = NoFile

\* the retrieval of the comments failed after a PR was found: the process
\* ended with status 1 and no file
C18_Witness ==
  /\ xpc = "exit"
  /\ stage_log = << <<"cli", TRUE>>, <<"repository", TRUE>>, <<"pr", TRUE>>,
                    <<"comments", FALSE>> >>
  /\ pr_info # NoPr
  /\ report_file = NoFile
  /\ extractor_exit = 1

\* ------------------------------------------------------------------------
\* Properties of the token tester
\* ------------------------------------------------------------------------
\* C20: the banner of a battery never shows the whole token: at least one
\* character of the token is withheld from the preview, that is, the
\* preview is the same whatever stands at the place of that character.
C20_TokenCharacterWithheld ==
  banner # <<>> =>
    \E p \in DOMAIN banner_token :
      \A c \in {"a", "b"} : token_preview(Replaced(banner_token, p, c)) = banner

\* a configuration value that is absent or empty
Missing(v) == v \in {None, ""}

\* the positions of trace that hold a battery of the phase
BatteriesOf(phase) == {i \in DOMAIN trace : trace[i][1] = phase}

\* the credential kinds the phase tested
KindsOf(phase) == {trace[i][2] : i \in BatteriesOf(phase)}

HealCalls == {i \in DOMAIN trace : trace[i][1] = "HEAL"}

RetestRan == BatteriesOf("RETEST") # {}

\* the INITIAL phase has run to its end
InitialDone ==
  \/ pc \in {"initial_summary", "heal", "retest_account", "retest_user", "final"}
  \/ pc = "exit" /\ gets > 0

\* the RETEST phase has run to its end
RetestDone == pc = "final" \/ (pc = "exit" /\ RetestRan)

\* C1: when the RETEST phase ran, the exit status is 0 iff no RETEST result is
\* a failure; when no heal POST was issued, the exit status is 0 iff no INITIAL
\* result is a failure.
C1_ExitStatus ==
  (pc = "exit" /\ gets > 0) =>
     /\ RetestRan => (exit_status = 0 <=> tally.RETEST.failed = 0)
     /\ posts = 0 => (exit_status = 0 <=> tally.INITIAL.failed = 0)

C1_Witness ==
  /\ pc = "exit"
  /\ RetestRan
  /\ exit_status = 0
  /\ tally.INITIAL.failed = 3
  /\ tally.RETEST.failed = 0

\* C2 (as claimed): after RETEST the outcome line is full recovery exactly when
\* no RETEST failure remains, improvement when failures remain and more probes
\* pass than in INITIAL, stagnation when failures remain and as many pass.
C2_OutcomeAsClaimed ==
  (pc = "exit" /\ RetestRan) =>
     LET delta == tally.RETEST.passed - tally.INITIAL.passed
         failed == tally.RETEST.failed
     IN /\ failed = 0 <=> report = "All tests passing!"
        /\ (failed > 0 /\ delta > 0) => report = "Improvement"
        /\ (failed > 0 /\ delta = 0) => report = "No improvement after healing"

\* a response with HTTP 200, a true success flag and an empty result list
EmptyOk(resp) ==
  /\ resp.kind = "json"
  /\ resp.status = 200
  /\ resp.success = "True"
  /\ resp.result_len = 0

\* C3 (as claimed): every probe given HTTP 200, success and an empty result
\* list records a pass, and the failure count stays 0.
C3_EmptyListPassesEverywhere ==
  EmptyOk(probe_resp) =>
     /\ \A i \in DOMAIN tester.results : tester.results[i].success = "True"
     /\ tally.INITIAL.failed = 0

\* C3 (amended): given HTTP 200, success and an empty result list, the five
\* probes workers, D1, KV, AI models and API tokens record a pass, and the
\* account listing records a failure, the only one counted.
C3_EmptyListPassesButAccounts ==
  EmptyOk(probe_resp) =>
     /\ \A i \in DOMAIN tester.results :
          /\ i \in 3..7 => tester.results[i].success = "True"
          /\ i = 2 => tester.results[i] = [name |-> "List Accounts", success |-> "False"]
     /\ tally.INITIAL.failed = IF Len(tester.results) >= 2 THEN 1 ELSE 0

C3_Witness ==
  /\ EmptyOk(probe_resp)
  /\ Len(tester.results) = 7
  /\ tester.results[7] = [name |-> "List API Tokens", success |-> "True"]

\* batteries of trace that have returned
CompletedBatteries ==
  Cardinality(BatteriesOf("INITIAL") \cup BatteriesOf("RETEST"))
    - (IF InBattery THEN 1 ELSE 0)

C5_HealNotConfigured ==
  (InitialDone /\ tally.INITIAL.failed >= 1
     /\ (Missing(worker_url) \/ Missing(client_auth_token))) =>
       /\ posts = 0
       /\ ~RetestRan
       /\ pc \in {"initial_summary", "exit"}
       /\ pc = "exit" => exit_status = 1

C5_Witness ==
  /\ pc = "exit"
  /\ exit_status = 1
  /\ tally.INITIAL.failed = 2
  /\ ~Missing(worker_url)
  /\ Missing(client_auth_token)
  /\ KindsOf("INITIAL") = {"account"}

\* C6: with 0 INITIAL failures over every credential tested, the process
\* exits with status 0 reporting that no healing is needed, issues no heal
\* POST and runs no RETEST battery, whatever the heal configuration.
C6_NoHealingNeeded ==
  (InitialDone /\ tally.INITIAL.failed = 0) =>
       /\ posts = 0
       /\ ~RetestRan
       /\ pc \in {"initial_summary", "exit"}
       /\ pc = "exit" =>
            /\ exit_status = 0
            /\ report = "All tests passed! No healing needed."

C6_Witness ==
  /\ pc = "exit"
  /\ exit_status = 0
  /\ tally.INITIAL = [passed |-> 14, failed |-> 0]
  /\ ~Missing(worker_url)
  /\ ~Missing(client_auth_token)

\* the place of an event of trace in the order INITIAL, heal, RETEST
Rank(e) == CASE e[1] = "INITIAL" -> 1 [] e[1] = "HEAL" -> 2 [] e[1] = "RETEST" -> 3

\* the heal call answered HTTP 200 with a success flag
HealOk(e) ==
  /\ e[1] = "HEAL"
  /\ e[2].kind = "json"
  /\ e[2].status = 200
  /\ e[2].success = "True"

\* C7: the events of a run are the INITIAL batteries, then at most one heal
\* POST, then the RETEST batteries; RETEST runs iff that POST answered HTTP 200
\* with a success flag, and then runs the full battery, on a fresh session, for
\* exactly the credential kinds INITIAL tested.
C7_PhaseOrder ==
  /\ \A i, j \in DOMAIN trace : i < j => Rank(trace[i]) <= Rank(trace[j])
  /\ \A i, j \in DOMAIN trace :
       (i < j /\ trace[i][1] = trace[j][1]) =>
          (trace[i][1] # "HEAL" /\ trace[i][2] = "account" /\ trace[j][2] = "user")
  /\ posts = Cardinality(HealCalls)
  /\ posts <= 1
  /\ RetestRan => \E i \in HealCalls : HealOk(trace[i])
  /\ (\E i \in HealCalls : ~HealOk(trace[i])) => (~RetestRan /\ pc = "exit")
  /\ KindsOf("RETEST") \subseteq KindsOf("INITIAL")
  /\ (InBattery /\ tester.next = 1) =>
        (tester.results = <<>> /\ tester.token_type = trace[Len(trace)][2])
  /\ (pc = "exit" /\ \E i \in HealCalls : HealOk(trace[i])) =>
        /\ KindsOf("RETEST") = KindsOf("INITIAL")
        /\ gets = 7 * Cardinality(BatteriesOf("INITIAL") \cup BatteriesOf("RETEST"))

C7_Witness ==
  /\ pc = "exit"
  /\ Len(trace) = 5
  /\ HealOk(trace[3])
  /\ trace[5] = <<"RETEST", "user">>

\* C8: a print_test call with the skipped outcome appends nothing, so it is
\* in neither count nor in the total the success rate divides by; and a
\* credential that is absent adds nothing to the totals of a phase.
C8_SkippedNotCounted ==
  /\ InBattery =>
       /\ Len(tester.results) = print_calls - skips
       /\ \A i \in DOMAIN tester.results : tester.results[i].success \in {"True", "False"}
       /\ LET r == print_summary(tester.results) IN
            r[1] + r[2] = tester.next - 1
  /\ tally.INITIAL.passed + tally.INITIAL.failed + tally.RETEST.passed
       + tally.RETEST.failed = gets
  /\ \A i \in BatteriesOf("INITIAL") \cup BatteriesOf("RETEST") :
       /\ trace[i][2] = "account" => ~Missing(account_token)
       /\ trace[i][2] = "user" => ~Missing(user_token)
  /\ InitialDone =>
       initial_total_passed + initial_total_failed =
         (IF Missing(account_token) THEN 0 ELSE 7) + (IF Missing(user_token) THEN 0 ELSE 7)
  /\ RetestDone =>
       retest_total_passed + retest_total_failed =
         (IF Missing(account_token) THEN 0 ELSE 7) + (IF Missing(user_token) THEN 0 ELSE 7)

C8_Witness ==
  /\ skips > 0
  /\ InBattery
  /\ tester.next = NumProbes + 1
  /\ tester.token_type = "user"
  /\ Missing(account_token)
  /\ initial_total_passed + initial_total_failed = 0

\* the file lacks what main() requires
BadConfig(file) ==
  \/ ~file.exists
  \/ Missing(file.vars["CLOUDFLARE_ACCOUNT_ID"])
  \/ Missing(file.vars["CLOUDFLARE_ACCOUNT_TOKEN"])
       /\ Missing(file.vars["CLOUDFLARE_USER_TOKEN"])

\* no probe request and no heal POST has been issued
NothingSent == gets = 0 /\ posts = 0 /\ trace = <<>>

\* C9: a missing secrets file, a missing account identifier or the absence
\* of both tokens makes the process exit with status 1 before any probe
\* request or heal POST.
C9_ConfigFatal ==
  /\ [][(pc = "start" /\ BadConfig(env_file)) =>
          (pc' = "exit" /\ exit_status' = 1 /\ NothingSent')]_vars
  /\ [](~NothingSent =>
          (~Missing(account_id) /\ (~Missing(account_token) \/ ~Missing(user_token))))

C9_Witness ==
  /\ pc = "exit"
  /\ exit_status = 1
  /\ NothingSent
  /\ ~Missing(account_id)
  /\ Missing(account_token)
  /\ Missing(user_token)

====
